---- MODULE Spec2Model ----
(***************************************************************************)
(* A model of the NRTM v4 synchronization engine of nrtm4client            *)
(* (internal/nrtm4/service/process.go): the notification analyzer          *)
(* findUpdates, the delta pipeline (syncDeltas, applyDeltaFunc,            *)
(* validateDeltaHeader), the snapshot pipeline (snapshotObjectInsertFunc)  *)
(* and the operations Connect, Update and ReplaceLabel of NRTMProcessor.   *)
(*                                                                         *)
(* Two specifications share the module:                                    *)
(*   SpecFind  applies findUpdates (and the sort of syncDeltas) to every   *)
(*             notification and source version within the bounds;         *)
(*   Spec      runs Connect, Update and ReplaceLabel one at a time against *)
(*             a repository, a publisher and a reader that deliver any     *)
(*             file contents and any failure within the bounds.            *)
(***************************************************************************)
EXTENDS Integers, Sequences, FiniteSets, TLC

\* ------------------------------------------------------------------ bounds
\* Versions are uint32 in the code; the model keeps the wrap-around of the
\* unsigned addition at the scaled width MaxVersion + 1.
MaxVersion == 2
\* Longest delta list of a notification.
MaxDeltas == 2
\* Longest delta list of a notification handed to findUpdates in SpecFind.
FuMaxDeltas == 3
\* Record callbacks of one delta file before its end-of-file callback.
MaxEntries == 2
\* Record callbacks of one snapshot file before its end-of-file callback.
MaxSnapRecords == 2
\* RPSL object keys 1..NumObjs; 0 is the zero-value object.
NumObjs == 1
\* rpslInsertBatchSize (process.go:51) is 1000; the model scales it down so
\* that a batch fills within MaxSnapRecords.
BatchSize == 2

\* Sources the repository holds at most.
MaxSources == 1
MaxLabelSources == 2
MaxPoolRecords == 4
MaxEOFRecordAfter == 3

\* newParserPool(4), process.go:349
ParserPoolSize == 4

Versions == 0..MaxVersion
VersionMod == MaxVersion + 1
Sessions == {"s1", "s2"}
SourceNames == {"EXAMPLE"}
HeaderNames == {"EXAMPLE", "OTHER"}
URLs == {"u1", "u2"}
ObjKeys == 1..NumObjs
ZeroObj == 0
NilObj == -1
None == "none"

\* uint32 addition of 1
Inc32(v) == (v + 1) % VersionMod

\* --------------------------------------------------------- the label check
\* A label is a sequence of one-character strings.
AlnumChars == {"a"}
LabelChars == AlnumChars \cup {" ", ".", "_", "-"}
EmptyLabel == << >>
LabelInputs == {<< >>, <<"a">>, <<" ", "a">>, <<"!">>}
StoredLabels == {<< >>, <<"a">>}

RECURSIVE TrimLeft(_)
TrimLeft(l) == IF l # << >> /\ Head(l) = " " THEN TrimLeft(Tail(l)) ELSE l

RECURSIVE TrimRight(_)
TrimRight(l) ==
    IF l # << >> /\ l[Len(l)] = " " THEN TrimRight(SubSeq(l, 1, Len(l) - 1)) ELSE l

\* strings.TrimSpace
TrimSpace(l) == TrimRight(TrimLeft(l))

\* labelRe.MatchString
labelReMatch(l) ==
    /\ \A i \in DOMAIN l : l[i] \in LabelChars
    /\ \E i \in DOMAIN l : l[i] \in AlnumChars

\* Connect's label check: the error or None
ConnectLabelError(label) ==
    IF Len(label) > 0 /\ ~labelReMatch(label) THEN "Label is not valid" ELSE None

\* ------------------------------------------------------------ findUpdates
\* A file reference: its version and its URL. SpecFind gives every reference
\* of a notification a URL of its own (the place it has in the list), so that
\* two references of one version stay two references; the publisher of Spec
\* names a delta file after its version.
MkRefs(vs) == [i \in DOMAIN vs |-> [version |-> vs[i], url |-> i]]
MkRefsByVersion(vs) == [i \in DOMAIN vs |-> [version |-> vs[i], url |-> vs[i]]]

VersionLists == UNION {[1..n -> Versions] : n \in 0..MaxDeltas}

RefVersions(refs) == [i \in DOMAIN refs |-> refs[i].version]

SeqSet(s) == {s[i] : i \in DOMAIN s}

\* the loop of findUpdates that keeps the references the source still needs,
\* with the comparison turned into >=
deltaRefsFromVersion(refs, sourceVersion) ==
    SelectSeq(refs, LAMBDA r : r.version >= sourceVersion)

\* the loop of findUpdates that keeps the references the source still needs
deltaRefsAboveVersion(refs, sourceVersion) ==
    SelectSeq(refs, LAMBDA r : r.version > sourceVersion)

\* the last check of findUpdates, one version too lenient
nextConsecutiveUnavailableLate(sourceVersion, lo) == Inc32(sourceVersion) + 1 < lo

\* the last check of findUpdates: source.Version+1 < lo, in uint32
nextConsecutiveUnavailable(sourceVersion, lo) == Inc32(sourceVersion) < lo

\* what findUpdates returns for a notification without deltas, turned into
\* a success with nothing to apply
noDeltasInNotificationNil == [err |-> None, refs |-> << >>]

\* what findUpdates returns for a notification without deltas:
\* nil, ErrNRTMNoDeltasInNotification
noDeltasInNotification == [err |-> "NoDeltasInNotification", refs |-> << >>]

\* the loop of findUpdates over the sorted versions, left out
deltaSequenceBrokenNever(sorted) == FALSE

\* the loop of findUpdates over the sorted versions: versions[i]+1 != versions[i+1]
deltaSequenceBroken(sorted) ==
    \E i \in 1..(Len(sorted) - 1) : Inc32(sorted[i]) # sorted[i + 1]

\* findUpdates(notification, source): the error and the references returned
findUpdates(notification, sourceVersion) ==
    LET refs == notification.deltaRefs IN
    IF notification.deltaRefsNil \/ Len(refs) = 0 THEN noDeltasInNotification
    ELSE
      LET deltaRefs == deltaRefsAboveVersion(refs, sourceVersion)
          versions == RefVersions(refs)
          sorted == SortSeq(versions, LAMBDA a, b : a < b)
          lo == sorted[1]
          hi == sorted[Len(sorted)]
      IN
      IF Cardinality(SeqSet(versions)) # Len(versions)
        THEN [err |-> "DuplicateDeltaVersion", refs |-> << >>]
      ELSE IF hi # notification.version
        THEN [err |-> "NotificationVersionDoesNotMatchDelta", refs |-> << >>]
      ELSE IF deltaSequenceBroken(sorted)
        THEN [err |-> "NotificationDeltaSequenceBroken", refs |-> << >>]
      ELSE IF nextConsecutiveUnavailable(sourceVersion, lo)
        THEN [err |-> "NextConsecutiveDeltaUnavaliable", refs |-> << >>]
      ELSE [err |-> None, refs |-> deltaRefs]

\* sort.Sort(fileRefsByVersion(deltaRefs))
fileRefsByVersion(refs) == SortSeq(refs, LAMBDA a, b : a.version < b.version)

\* syncDeltas without its sort: the references in the notification's order
syncDeltasPlanUnsorted(notification, sourceVersion) ==
    findUpdates(notification, sourceVersion)

\* syncDeltas up to its loop: the error it returns, or the references in the
\* order the loop takes them
syncDeltasPlan(notification, sourceVersion) ==
    LET r == findUpdates(notification, sourceVersion) IN
    IF r.err # None THEN r ELSE [err |-> None, refs |-> fileRefsByVersion(r.refs)]

IsStrictlyAscending(refs) ==
    \A i \in 1..(Len(refs) - 1) : refs[i].version < refs[i + 1].version

\* ------------------------------------------------- notifications and files
\* deltaRefsNil: the notification has no delta_refs member (a nil pointer).
Notifications ==
    [source : HeaderNames, sessionId : Sessions, version : Versions,
     snapshotRef : Versions, deltaRefs : {MkRefsByVersion(vs) : vs \in VersionLists},
     deltaRefsNil : {FALSE}]
    \cup [source : HeaderNames, sessionId : Sessions, version : Versions,
          snapshotRef : Versions, deltaRefs : {<< >>}, deltaRefsNil : {TRUE}]

\* The fields of NrtmFileJSON, the first record of a snapshot or delta file.
FileHeaders ==
    [nrtmVersion : {3, 4}, sessionId : Sessions, source : HeaderNames,
     version : Versions]

\* What json.Unmarshal makes of a record that holds none of the fields.
ZeroHeader == [nrtmVersion |-> 0, sessionId |-> "", source |-> "", version |-> 0]
\* The nil header pointer.
NilHeader == [nrtmVersion |-> -1, sessionId |-> "", source |-> "", version |-> 0]
\* No source, no notification, no file reference.
NoSource ==
    [id |-> 0, source |-> "", sessionId |-> "", version |-> 0,
     notificationURL |-> "", label |-> << >>]
NoNotification == [sessionId |-> "", version |-> 0, snapshotRef |-> 0]
NoRef == [version |-> 0, url |-> 0]
NoRepo == [sources |-> << >>, objects |-> << >>]
NoFile == [version |-> 0, objects |-> {}]

\* The records a file can hold. "malformed" is any byte string that is not
\* JSON, the empty one included.
HeaderRecords == {[k |-> "header", h |-> h] : h \in FileHeaders}
DeltaRecords ==
    {[k |-> "add_modify", obj |-> o] : o \in ObjKeys}
    \cup {[k |-> "delete", obj |-> o] : o \in ObjKeys}
    \cup {[k |-> "add_modify_bad_rpsl"], [k |-> "add_modify_no_object"],
          [k |-> "delete_no_key"], [k |-> "other_action"]}
SnapshotRecords ==
    {[k |-> "object", obj |-> o] : o \in ObjKeys} \cup {[k |-> "object_bad_rpsl"]}
Malformed == [k |-> "malformed"]
DeltaFileBytes == HeaderRecords \cup DeltaRecords \cup {Malformed}
SnapshotFileBytes == HeaderRecords \cup SnapshotRecords \cup {Malformed}
\* What the snapshot pipeline takes for an object record: bytesToRPSL reads
\* no field of a header, so one header stands for all of them there.
SnapshotObjectBytes ==
    SnapshotRecords \cup {Malformed, [k |-> "header", h |-> [ZeroHeader EXCEPT !.nrtmVersion = 4]]}

\* The err argument of a record callback: nil, io.EOF, &persist.ErrNoEntity or
\* another read error.
ReaderErrs == {"nil", "EOF", "ErrNoEntity", "read error"}

\* json.Unmarshal(bytes, new(DeltaFileJSON)) and new(SnapshotFileJSON)
UnmarshalHeader(bytes) ==
    IF bytes.k = "malformed" THEN [err |-> "json error", v |-> ZeroHeader]
    ELSE IF bytes.k = "header" THEN [err |-> None, v |-> bytes.h]
    ELSE [err |-> None, v |-> ZeroHeader]

\* json.Unmarshal(bytes, new(DeltaJSON)): the action and its fields
UnmarshalDelta(bytes) ==
    IF bytes.k = "malformed" THEN [err |-> "json error", v |-> bytes]
    ELSE IF bytes.k = "header" THEN [err |-> None, v |-> [k |-> "other_action"]]
    ELSE [err |-> None, v |-> bytes]

\* rpslObjectParser.bytesToRPSL: NilObj is the nil pointer; a record whose RPSL
\* text does not parse yields a pointer to what ParseString returned.
bytesToRPSL(bytes) ==
    IF bytes.k = "malformed" THEN NilObj
    ELSE IF bytes.k = "object" THEN bytes.obj
    ELSE ZeroObj

\* validateDeltaHeader with the session check left out
validateDeltaHeaderNoSession(file, source, deltaRef) ==
    IF file.nrtmVersion # 4 THEN "ErrNRTMVersionMismatch"
    ELSE IF file.source # source.source THEN "ErrNRTMSourceNameMismatch"
    ELSE IF file.version # deltaRef.version THEN "ErrNRTMFileVersionMismatch"
    ELSE IF file.version < source.version THEN "ErrNRTMFileVersionInconsistency"
    ELSE None

validateDeltaHeader(file, source, deltaRef) ==
    IF file.nrtmVersion # 4 THEN "ErrNRTMVersionMismatch"
    ELSE IF file.sessionId # source.sessionId THEN "ErrNRTMSourceMismatch"
    ELSE IF file.source # source.source THEN "ErrNRTMSourceNameMismatch"
    ELSE IF file.version # deltaRef.version THEN "ErrNRTMFileVersionMismatch"
    ELSE IF file.version < source.version THEN "ErrNRTMFileVersionInconsistency"
    ELSE None

\* The calls of incrementCounters a snapshot can have under way: call 0 is
\* the reader's own, made with io.EOF; call i is the goroutine started for
\* the i-th record after the header. The i-th record carries object i; the
\* record given with io.EOF, when it parses at all, carries the zero object.
PoolCalls == 0..MaxPoolRecords

\* ----------------------------------------------------------------- state
VARIABLES
    fu,                 \* SpecFind: the arguments and the result of findUpdates
    sources,            \* repository: the source records, by id
    objects,            \* repository: the objects stored for each source id
    pc,                 \* where the running operation stands
    opKind,             \* the running operation
    result,             \* what the operation returned
    src,                \* the operation's local variable source
    nt,                 \* the notification downloaded: sessionId, version, snapshotRef
    deltaRefs,          \* syncDeltas: the references the loop has not reached yet
    deltaRef,           \* syncDeltas: the reference of the file being read
    header,             \* applyDeltaFunc: header
    nread,              \* record callbacks made for the file being read
    snapshotHeader,     \* snapshotObjectInsertFunc: snapshotHeader
    successfulObjects,  \* snapshotObjectInsertFunc: successfulObjects
    failedObjects,      \* snapshotObjectInsertFunc: failedObjects
    objectList,         \* snapshotObjectInsertFunc: objectList.objects
    workers,            \* the records held by running parser goroutines
    analyzed,           \* findUpdates was called by the operation
    emptyDeltas,        \* findUpdates was given a notification without deltas
    fetched,            \* the delta versions the operation asked the file manager for
    saved,              \* the operation's writes of the source: the version
                        \* written and the version of the file it was written for
    wrote,              \* the operation wrote to the repository
    pre,                \* the repository when the operation started
    filePre,            \* the source's version and objects when the delta file started
    caughtUp,           \* the operation before this one was an Update that applied deltas
    digestOk,           \* the digest of the file being read is the hash of its reference
    connected,          \* the operation before this one was a Connect that returned nil
    listed,             \* what ListSources returned
    eofBytes,           \* the kind of record the snapshot callback was given with io.EOF
    wk,                 \* SpecSnap: the calls of incrementCounters under way, by record
    parsers,            \* SpecSnap: the handles in parserPool.Parsers
    poolClosed,         \* SpecSnap: parserPool.Close was called
    wg,                 \* SpecSnap: the counter of the WaitGroup
    delivered           \* SpecSnap: how often each object was handed to SaveSnapshotObjects

repoVars == <<sources, objects>>
opVars == <<pc, opKind, result, src, nt>>
deltaVars == <<deltaRefs, deltaRef, header, nread>>
snapVars == <<snapshotHeader, successfulObjects, failedObjects, objectList, workers>>
histVars ==
    <<analyzed, emptyDeltas, fetched, saved, wrote, pre, filePre, caughtUp, digestOk,
      connected, listed, eofBytes>>
poolVars == <<wk, parsers, poolClosed, wg, delivered>>
procVars == <<repoVars, opVars, deltaVars, snapVars, histVars, poolVars>>
vars == <<fu, procVars>>

\* The process before any operation: an empty repository.
InitProc ==
    /\ sources = << >>
    /\ objects = << >>
    /\ pc = "idle"
    /\ opKind = None
    /\ result = None
    /\ src = NoSource
    /\ nt = NoNotification
    /\ deltaRefs = << >>
    /\ deltaRef = NoRef
    /\ header = NilHeader
    /\ nread = 0
    /\ snapshotHeader = NilHeader
    /\ successfulObjects = 0
    /\ failedObjects = 0
    /\ objectList = << >>
    /\ workers = << >>
    /\ analyzed = FALSE
    /\ emptyDeltas = FALSE
    /\ fetched = << >>
    /\ saved = << >>
    /\ wrote = FALSE
    /\ pre = NoRepo
    /\ filePre = NoFile
    /\ caughtUp = FALSE
    /\ digestOk = TRUE
    /\ connected = FALSE
    /\ listed = << >>
    /\ eofBytes = ""
    /\ wk = [i \in PoolCalls |-> [st |-> "none", obj |-> NilObj, reg |-> 0]]
    /\ parsers = ParserPoolSize
    /\ poolClosed = FALSE
    /\ wg = 0
    /\ delivered = [o \in PoolCalls |-> 0]

\* ------------------------------------------------- SpecFind: findUpdates
Uncalled == [err |-> "uncalled", refs |-> << >>]
FuNotifications ==
    [source : SourceNames, sessionId : Sessions, version : Versions,
     snapshotRef : Versions,
     deltaRefs : {MkRefs(vs) : vs \in UNION {[1..n -> Versions] : n \in 0..FuMaxDeltas}},
     deltaRefsNil : {FALSE}]
    \cup [source : SourceNames, sessionId : Sessions, version : Versions,
          snapshotRef : Versions, deltaRefs : {<< >>}, deltaRefsNil : {TRUE}]

FuInputs ==
    [n : FuNotifications, sv : Versions, out : {Uncalled}, sortDone : {FALSE},
     sorted : {<< >>}]

InitFind == fu \in FuInputs /\ InitProc

\* findUpdates(notification, source)
FindUpdatesCall ==
    /\ fu.out = Uncalled
    /\ fu' = [fu EXCEPT !.out = findUpdates(fu.n, fu.sv)]
    /\ UNCHANGED procVars

\* syncDeltas: sort.Sort(fileRefsByVersion(deltaRefs)) on what findUpdates returned
SortCall ==
    /\ fu.out.err = None
    /\ ~fu.sortDone
    /\ fu' = [fu EXCEPT !.sortDone = TRUE, !.sorted = fileRefsByVersion(fu.out.refs)]
    /\ UNCHANGED procVars

NextFind == FindUpdatesCall \/ SortCall

SpecFind == InitFind /\ [][NextFind]_vars

\* ------------------------------------------------------- the repository
\* NrtmDataService.getSourceByURLAndLabel: the ids of the matching sources
getSourceByURLAndLabel(url, label) ==
    {i \in DOMAIN sources :
        sources[i].notificationURL = url /\ sources[i].label = label}

\* NrtmDataService.getSourceByNameAndLabel: the ids of the matching sources
getSourceByNameAndLabel(name, label) ==
    {i \in DOMAIN sources : sources[i].source = name /\ sources[i].label = label}

\* persist.NewNRTMSource(notification, label, notificationURL): the source
\* starts at the version of the snapshot it is about to load
NewNRTMSource(notification, label, notificationURL) ==
    [id |-> 0, source |-> notification.source,
     sessionId |-> notification.sessionId,
     version |-> notification.snapshotRef,
     notificationURL |-> notificationURL, label |-> label]

\* The repository taking any new source
saveNewSourceNeverRefused(source) == FALSE

\* The repository refuses a second source of one (source, label).
saveNewSourceRefused(source) ==
    getSourceByNameAndLabel(source.source, source.label) # {}

\* db.Update(tx, target): the repository refuses a record that would share
\* (source, label) or (notificationURL, label) with another one.
updateRefused(source) ==
    \E i \in DOMAIN sources :
        /\ i # source.id
        /\ sources[i].label = source.label
        /\ \/ sources[i].source = source.source
           \/ sources[i].notificationURL = source.notificationURL

\* Repository.SaveSource(source, notification): the record of source.id replaced
SaveSource(source) == [sources EXCEPT ![source.id] = source]

\* Repository.SaveSnapshotObjects / AddModifyObject: objs added to the source's
AddObjects(id, objs) == [objects EXCEPT ![id] = @ \cup objs]

\* Repository.DeleteObject
RemoveObject(id, obj) == [objects EXCEPT ![id] = @ \ {obj}]

Repo == [sources |-> sources, objects |-> objects]

NotificationSummary(n) ==
    [sessionId |-> n.sessionId, version |-> n.version, snapshotRef |-> n.snapshotRef]

\* notification.DeltaRefs is nil or empty
HasNoDeltas(n) == n.deltaRefsNil \/ n.deltaRefs = << >>

\* The notifications Connect can have downloaded, its list of delta
\* references left open: Connect reads the list in syncDeltas only, and the
\* list is drawn there.
NotificationHeads == {n \in Notifications : n.deltaRefs = << >> /\ ~n.deltaRefsNil}

\* The notifications of the head Connect downloaded
NotificationsOf(summary, name) ==
    {n \in Notifications : NotificationSummary(n) = summary /\ n.source = name}

\* ------------------------------------------------------------ the file cache
\* What fetchFileAndCheckHash finds: whether the cache directory holds a file
\* of the reference's name, whether that file's digest is the reference's
\* hash, and what a download gives.
FetchCases ==
    {c \in [cached : BOOLEAN, cachedOk : BOOLEAN,
            remote : {"ok", "bad digest", "io error"}] :
        /\ ~c.cached => ~c.cachedOk
        /\ c.cachedOk => c.remote = "ok"}

\* fetchFileAndCheckHash, returning the file of the cache without a look at
\* its digest
fetchFileUnchecked(c) ==
    IF c.cached THEN [err |-> None, digestOk |-> c.cachedOk]
    ELSE IF c.remote = "io error"
      THEN [err |-> "fetchFileAndCheckHash: fetch failed", digestOk |-> TRUE]
    ELSE IF c.remote = "bad digest"
      THEN [err |-> "fetchFileAndCheckHash: hash mismatch", digestOk |-> TRUE]
    ELSE [err |-> None, digestOk |-> TRUE]

\* fileManager.fetchFileAndCheckHash(ref, dir): the file of the cache when it
\* verifies, otherwise a download through the hash check
fetchFileAndCheckHash(c) ==
    IF c.cached /\ c.cachedOk THEN [err |-> None, digestOk |-> TRUE]
    ELSE IF c.remote = "io error"
      THEN [err |-> "fetchFileAndCheckHash: fetch failed", digestOk |-> TRUE]
    ELSE IF c.remote = "bad digest"
      THEN [err |-> "fetchFileAndCheckHash: hash mismatch", digestOk |-> TRUE]
    ELSE [err |-> None, digestOk |-> TRUE]

\* ------------------------------------------------------------ operations
\* An operation that returns before it has written anything or read a file.
ReturnsAtOnce(kind, res) ==
    /\ pc' = "done"
    /\ opKind' = kind
    /\ result' = res
    /\ pre' = Repo
    /\ UNCHANGED <<repoVars, src, deltaVars, snapVars>>
    /\ UNCHANGED <<analyzed, emptyDeltas, fetched, saved, wrote, filePre, caughtUp, connected, eofBytes, listed, digestOk>>

\* Update's checks of the notification against the source, the version check
\* left out
UpdateDecisionNoVersionCheck(notification, source) ==
    IF notification.sessionId # source.sessionId
      THEN "server has a new mirror session"
    ELSE IF notification.version = source.version THEN "ok"
    ELSE "sync"

\* Update's checks of the notification against the source, the return on an
\* equal version left out
UpdateDecisionNoEqualReturn(notification, source) ==
    IF notification.sessionId # source.sessionId
      THEN "server has a new mirror session"
    ELSE IF notification.version < source.version THEN "server has old version"
    ELSE "sync"

\* Update's checks of the notification against the source (lines 138-148):
\* the error, "ok" for the return of nil, or "sync" for the call of syncDeltas
UpdateDecision(notification, source) ==
    IF notification.sessionId # source.sessionId
      THEN "server has a new mirror session"
    ELSE IF notification.version < source.version THEN "server has old version"
    ELSE IF notification.version = source.version THEN "ok"
    ELSE "sync"

\* Connect, up to the first record of the snapshot file
Connect(notificationURL, labelIn) ==
    /\ pc = "idle"
    /\ LET label == TrimSpace(labelIn) IN
       \/ /\ ConnectLabelError(label) # None
          /\ nt' = nt
          /\ ReturnsAtOnce("connect", ConnectLabelError(label))
       \/ /\ ConnectLabelError(label) = None
          /\ nt' = nt
          /\ ReturnsAtOnce("connect", "download error(s)")
       \/ /\ ConnectLabelError(label) = None
          /\ \E n \in NotificationHeads :
                /\ nt' = NotificationSummary(n)
                /\ \/ /\ getSourceByURLAndLabel(notificationURL, label) # {}
                      /\ ReturnsAtOnce("connect", "source already exists")
                   \/ /\ getSourceByURLAndLabel(notificationURL, label) = {}
                      /\ \E e \in {"ensureDirectoryExists failed",
                                   "saveNewSource failed"} :
                            ReturnsAtOnce("connect", e)
                   \/ /\ getSourceByURLAndLabel(notificationURL, label) = {}
                      /\ \E c \in FetchCases :
                            /\ fetchFileAndCheckHash(c).err # None
                            /\ ReturnsAtOnce("connect", fetchFileAndCheckHash(c).err)
                   \/ /\ getSourceByURLAndLabel(notificationURL, label) = {}
                      /\ saveNewSourceRefused(NewNRTMSource(n, label, notificationURL))
                      /\ ReturnsAtOnce("connect", "saveNewSource failed")
                   \/ /\ getSourceByURLAndLabel(notificationURL, label) = {}
                      /\ ~saveNewSourceRefused(NewNRTMSource(n, label, notificationURL))
                      /\ \E c \in FetchCases :
                            /\ fetchFileAndCheckHash(c).err = None
                            /\ digestOk' = fetchFileAndCheckHash(c).digestOk
                      /\ LET source ==
                               [NewNRTMSource(n, label, notificationURL)
                                   EXCEPT !.id = Len(sources) + 1]
                         IN
                         /\ sources' = Append(sources, source)
                         /\ objects' = Append(objects, {})
                         /\ src' = source
                         /\ saved' = <<[by |-> "saveNewSource", version |-> source.version,
                                         file |-> n.snapshotRef]>>
                      /\ pc' = "snapshot"
                      /\ opKind' = "connect"
                      /\ wrote' = TRUE
                      /\ pre' = Repo
                      /\ UNCHANGED <<result, deltaRefs, deltaRef, header, nread>>
                      /\ UNCHANGED <<snapVars, analyzed, emptyDeltas, fetched, filePre, caughtUp, connected, eofBytes, listed>>

\* Update, up to the loop of syncDeltas
Update(sourceName, label) ==
    /\ pc = "idle"
    /\ LET ids == getSourceByNameAndLabel(sourceName, label) IN
       \/ /\ ids = {}
          /\ nt' = nt
          /\ ReturnsAtOnce("update", "no source found")
       \/ /\ ids # {}
          /\ nt' = nt
          /\ ReturnsAtOnce("update", "problem downloading notification file")
       \/ /\ ids # {}
          /\ \E n \in Notifications :
                LET source == sources[CHOOSE i \in ids : TRUE]
                    d == UpdateDecision(n, source)
                    r == syncDeltasPlan(n, source.version)
                IN
                /\ nt' = NotificationSummary(n)
                /\ src' = source
                /\ opKind' = "update"
                /\ pre' = Repo
                /\ analyzed' = (d = "sync")
                /\ emptyDeltas' = (d = "sync" /\ HasNoDeltas(n))
                /\ IF d # "sync" THEN
                      /\ pc' = "done"
                      /\ result' = d
                      /\ deltaRefs' = deltaRefs
                   ELSE IF r.err # None THEN
                      /\ pc' = "done"
                      /\ result' = r.err
                      /\ deltaRefs' = deltaRefs
                   ELSE IF r.refs = << >> THEN
                      /\ pc' = "done"
                      /\ result' = "ok"
                      /\ deltaRefs' = deltaRefs
                   ELSE
                      /\ pc' = "deltas"
                      /\ result' = result
                      /\ deltaRefs' = r.refs
                /\ UNCHANGED <<repoVars, deltaRef, header, nread, snapVars>>
                /\ UNCHANGED <<fetched, saved, wrote, filePre, caughtUp, connected, eofBytes, listed, digestOk>>

\* ReplaceLabel's checks with the look for a source of the new label left out
ReplaceLabelErrorNoDupeCheck(name, fromLabel, toLabel) ==
    IF getSourceByNameAndLabel(name, fromLabel) = {}
      THEN "cannot find source with given name and label"
    ELSE None

\* ReplaceLabel's checks before the update: the error or None
ReplaceLabelError(name, fromLabel, toLabel) ==
    IF getSourceByNameAndLabel(name, fromLabel) = {}
      THEN "cannot find source with given name and label"
    ELSE IF getSourceByNameAndLabel(name, toLabel) # {}
      THEN "ErrSourceAlreadyExists"
    ELSE None

\* ReplaceLabel(src, fromLabel, toLabel)
ReplaceLabel(name, fromLabel, toLabel) ==
    /\ pc = "idle"
    /\ nt' = nt
    /\ LET target == getSourceByNameAndLabel(name, fromLabel)
           err == ReplaceLabelError(name, fromLabel, toLabel)
       IN
       \/ /\ err # None
          /\ ReturnsAtOnce("replaceLabel", err)
       \/ /\ err = None
          /\ ReturnsAtOnce("replaceLabel", "db.Update failed")
       \/ /\ err = None
          /\ LET id == CHOOSE i \in target : TRUE IN
             /\ ~updateRefused([sources[id] EXCEPT !.label = toLabel])
             /\ sources' = [sources EXCEPT ![id].label = toLabel]
          /\ pc' = "done"
          /\ opKind' = "replaceLabel"
          /\ result' = "ok"
          /\ wrote' = TRUE
          /\ pre' = Repo
          /\ UNCHANGED <<objects, src, deltaVars, snapVars>>
          /\ UNCHANGED <<analyzed, emptyDeltas, fetched, saved, filePre, caughtUp, connected, eofBytes, listed, digestOk>>

\* the first version of the history ListSources asks for (lines 161-165)
historyFrom(version) == IF version <= 99 THEN 1 ELSE version - 99

\* ListSources(): every stored source with the range of notification history
\* asked for it
ListSources ==
    /\ pc = "idle"
    /\ pc' = "done"
    /\ opKind' = "listSources"
    /\ pre' = Repo
    /\ nt' = nt
    /\ \/ /\ result' = "getSources failed"
          /\ listed' = << >>
       \/ /\ sources # << >>
          /\ result' = "GetNotificationHistory failed"
          /\ listed' = << >>
       \/ /\ result' = "ok"
          /\ listed' = [i \in DOMAIN sources |->
                           [source |-> sources[i],
                            from |-> historyFrom(sources[i].version),
                            to |-> sources[i].version]]
    /\ UNCHANGED <<repoVars, src, deltaVars, snapVars>>
    /\ UNCHANGED <<analyzed, emptyDeltas, fetched, saved, wrote, filePre, caughtUp, digestOk, connected, eofBytes>>

\* The operation has returned; the next one starts from the repository it left.
Return ==
    /\ pc = "done"
    /\ pc' = "idle"
    /\ opKind' = None
    /\ result' = None
    /\ src' = NoSource
    /\ nt' = NoNotification
    /\ deltaRefs' = << >>
    /\ deltaRef' = NoRef
    /\ header' = NilHeader
    /\ nread' = 0
    /\ snapshotHeader' = NilHeader
    /\ successfulObjects' = 0
    /\ failedObjects' = 0
    /\ objectList' = << >>
    /\ workers' = << >>
    /\ analyzed' = FALSE
    /\ emptyDeltas' = FALSE
    /\ fetched' = << >>
    /\ saved' = << >>
    /\ wrote' = FALSE
    /\ pre' = NoRepo
    /\ filePre' = NoFile
    /\ caughtUp' = (opKind = "update" /\ result = "ok" /\ fetched # << >>)
    /\ digestOk' = TRUE
    /\ connected' = (opKind = "connect" /\ result = "ok")
    /\ listed' = << >>
    /\ eofBytes' = ""
    /\ UNCHANGED repoVars

\* ---------------------------------------------------- the snapshot file
\* The callback returned an error (or the process stopped): the operation
\* returns it.
Fails(res) ==
    /\ pc' = "done"
    /\ result' = res

\* incrementCounters(res): the counters, the batch buffer and the repository
\* after it, and how it ended: None, "panic" (nil snapshotHeader) or "fatal"
\* (log.Fatalln)
incrementCounters(res, repoFails) ==
    LET list == IF res # NilObj THEN Append(objectList, res) ELSE objectList
        full == Len(list) >= BatchSize
        rpslObjects == IF full THEN SubSeq(list, 1, BatchSize) ELSE << >>
        ret == IF rpslObjects = << >> THEN None
               ELSE IF snapshotHeader = NilHeader THEN "panic"
               ELSE IF repoFails THEN "fatal"
               ELSE None
    IN
    [objectList |-> IF full THEN SubSeq(list, BatchSize + 1, Len(list)) ELSE list,
     successfulObjects |-> IF res # NilObj THEN successfulObjects + 1
                           ELSE successfulObjects,
     failedObjects |-> IF res = NilObj THEN failedObjects + 1 ELSE failedObjects,
     ret |-> ret,
     saves |-> rpslObjects # << >> /\ ret = None,
     objects |-> IF rpslObjects # << >> /\ ret = None
                 THEN AddObjects(src.id, SeqSet(rpslObjects)) ELSE objects]

\* the source written at the end of the snapshot, session taken from the file
snapshotSourceFromHeader(source, file) ==
    [source EXCEPT !.version = file.version, !.sessionId = file.sessionId]

\* the source written at the end of the snapshot: source.Version = snapshotHeader.Version
snapshotSource(source, file) == [source EXCEPT !.version = file.version]

\* the check of the snapshot header, left out
snapshotHeaderErrorUnchecked(sf, snapshotRefVersion) == None

\* the check of the snapshot header against the notification
snapshotHeaderError(sf, snapshotRefVersion) ==
    IF sf.version # snapshotRefVersion THEN "ErrNRTMFileVersionMismatch" ELSE None

\* The record callback of snapshotObjectInsertFunc with an err that is not io.EOF
SnapshotRecord(bytes, err) ==
    /\ pc = "snapshot"
    /\ nread < MaxSnapRecords
    /\ nread' = nread + 1
    /\ \/ /\ err = "ErrNoEntity"
          /\ UNCHANGED <<pc, result, snapVars>>
       \/ /\ err = "read error"
          /\ Fails(err)
          /\ UNCHANGED snapVars
       \/ /\ err = "nil"
          /\ successfulObjects = 0
          /\ successfulObjects' = 1
          /\ LET sf == UnmarshalHeader(bytes) IN
             IF sf.err # None THEN
                Fails(sf.err) /\ snapshotHeader' = snapshotHeader
             ELSE IF snapshotHeaderError(sf.v, nt.snapshotRef) # None THEN
                /\ Fails(snapshotHeaderError(sf.v, nt.snapshotRef))
                /\ snapshotHeader' = snapshotHeader
             ELSE
                snapshotHeader' = sf.v /\ UNCHANGED <<pc, result>>
          /\ UNCHANGED <<failedObjects, objectList, workers>>
       \/ /\ err = "nil"
          /\ successfulObjects # 0
          /\ bytes \in SnapshotObjectBytes
          /\ Len(workers) < ParserPoolSize
          /\ workers' = Append(workers, bytes)
          /\ UNCHANGED <<pc, result, snapshotHeader, successfulObjects>>
          /\ UNCHANGED <<failedObjects, objectList>>
    /\ UNCHANGED <<repoVars, opKind, src, nt, deltaRefs, deltaRef, header>>
    /\ UNCHANGED histVars

\* A parser goroutine: incrementCounters(parser.bytesToRPSL(bytes)), then the
\* release of the parser and wg.Done. It may still run after the callback
\* has returned an error to Connect.
SnapshotWorker(i, repoFails) ==
    /\ pc \in {"snapshot", "snapwait"} \/ (pc = "done" /\ result \notin {"panic", "fatal"})
    /\ i \in DOMAIN workers
    /\ LET ic == incrementCounters(bytesToRPSL(workers[i]), repoFails) IN
       /\ objectList' = ic.objectList
       /\ successfulObjects' = ic.successfulObjects
       /\ failedObjects' = ic.failedObjects
       /\ objects' = ic.objects
       /\ wrote' = (wrote \/ ic.saves)
       /\ IF ic.ret # None THEN Fails(ic.ret) ELSE UNCHANGED <<pc, result>>
    /\ workers' = [j \in 1..(Len(workers) - 1) |->
                      IF j < i THEN workers[j] ELSE workers[j + 1]]
    /\ UNCHANGED <<sources, opKind, src, nt, deltaVars, snapshotHeader>>
    /\ UNCHANGED <<analyzed, emptyDeltas, fetched, saved, pre, filePre, caughtUp, connected, eofBytes, listed, digestOk>>

\* The callback with io.EOF, up to wg.Wait
SnapshotEOF(bytes, repoFails) ==
    /\ pc = "snapshot"
    /\ eofBytes' = bytes.k
    /\ Len(workers) < ParserPoolSize
    /\ LET ic == incrementCounters(bytesToRPSL(bytes), repoFails) IN
       /\ objectList' = ic.objectList
       /\ successfulObjects' = ic.successfulObjects
       /\ failedObjects' = ic.failedObjects
       /\ objects' = ic.objects
       /\ wrote' = (wrote \/ ic.saves)
       /\ IF ic.ret # None THEN Fails(ic.ret)
          ELSE pc' = "snapwait" /\ result' = result
    /\ UNCHANGED <<sources, opKind, src, nt, deltaVars, snapshotHeader, workers>>
    /\ UNCHANGED <<analyzed, emptyDeltas, fetched, saved, pre, filePre, caughtUp, connected, listed, digestOk>>

\* The callback with io.EOF from the return of wg.Wait on, and, when it
\* returns nil, Connect's call of syncDeltas up to its loop. The closure's
\* variables are gone once the loop of syncDeltas starts.
SnapshotFlush ==
    /\ pc = "snapwait"
    /\ workers = << >>
    /\ objectList' = << >>
    /\ \/ /\ snapshotHeader = NilHeader
          /\ Fails("panic")
          /\ UNCHANGED <<repoVars, deltaRefs, analyzed, emptyDeltas, saved, wrote>>
          /\ UNCHANGED <<snapshotHeader, successfulObjects, failedObjects>>
       \/ /\ snapshotHeader # NilHeader
          /\ Fails("SaveSnapshotObjects failed")
          /\ UNCHANGED <<repoVars, deltaRefs, analyzed, emptyDeltas, saved, wrote>>
          /\ UNCHANGED <<snapshotHeader, successfulObjects, failedObjects>>
       \/ /\ snapshotHeader # NilHeader
          /\ objects' = AddObjects(src.id, SeqSet(objectList))
          /\ wrote' = TRUE
          /\ Fails("SaveSource failed")
          /\ UNCHANGED <<sources, deltaRefs, analyzed, emptyDeltas, saved>>
          /\ UNCHANGED <<snapshotHeader, successfulObjects, failedObjects>>
       \/ /\ snapshotHeader # NilHeader
          /\ objects' = AddObjects(src.id, SeqSet(objectList))
          /\ sources' = SaveSource(snapshotSource(src, snapshotHeader))
          /\ saved' = Append(saved,
                [by |-> "snapshot",
                 version |-> snapshotSource(src, snapshotHeader).version,
                 file |-> snapshotHeader.version])
          /\ wrote' = TRUE
          /\ analyzed' = TRUE
          /\ \E n \in NotificationsOf(nt, src.source) :
                LET r == syncDeltasPlan(n, src.version) IN
                /\ emptyDeltas' = HasNoDeltas(n)
                /\ IF r.err # None \/ r.refs = << >> THEN
                      /\ Fails(IF r.err # None THEN r.err ELSE "ok")
                      /\ deltaRefs' = deltaRefs
                      /\ UNCHANGED <<snapshotHeader, successfulObjects, failedObjects>>
                   ELSE
                      /\ pc' = "deltas"
                      /\ result' = result
                      /\ deltaRefs' = r.refs
                      /\ snapshotHeader' = NilHeader
                      /\ successfulObjects' = 0
                      /\ failedObjects' = 0
    /\ UNCHANGED <<opKind, src, nt, deltaRef, header, nread, workers>>
    /\ UNCHANGED <<fetched, pre, filePre, caughtUp, connected, eofBytes, listed, digestOk>>

\* ------------------------------------------------------- the delta files
\* syncDeltas: the next reference of the loop and fm.fetchFileAndCheckHash
DeltaFetch ==
    /\ pc = "deltas"
    /\ deltaRef' = Head(deltaRefs)
    /\ deltaRefs' = Tail(deltaRefs)
    /\ fetched' = Append(fetched, Head(deltaRefs).version)
    /\ filePre' = [version |-> sources[src.id].version, objects |-> objects[src.id]]
    /\ \E c \in FetchCases :
          LET file == fetchFileAndCheckHash(c) IN
          IF file.err # None THEN
             /\ Fails(file.err)
             /\ UNCHANGED <<header, nread, digestOk>>
          ELSE
             /\ pc' = "delta"
             /\ result' = result
             /\ header' = NilHeader
             /\ nread' = 0
             /\ digestOk' = file.digestOk
    /\ UNCHANGED <<repoVars, opKind, src, nt, snapVars>>
    /\ UNCHANGED <<analyzed, emptyDeltas, saved, wrote, pre, caughtUp, connected, eofBytes, listed>>

\* the source applyDeltaFunc saves, its version left as it was
deltaSourceUnbumped(source, ref) == source

\* the source applyDeltaFunc saves once the header is accepted
deltaSource(source, ref) == [source EXCEPT !.version = ref.version]

\* The record callback of applyDeltaFunc: what it returns (None for nil) and
\* what it leaves behind
applyDeltaFunc(bytes, err, repoFails) ==
    LET same == [ret |-> None, header |-> header, sources |-> sources,
                 objects |-> objects, saved |-> << >>, wrote |-> FALSE]
    IN
    IF err = "ErrNoEntity" THEN [same EXCEPT !.ret = err]
    ELSE IF err \in {"nil", "EOF"} THEN
      IF header = NilHeader THEN
        LET deltaHeader == UnmarshalHeader(bytes) IN
        IF deltaHeader.err # None THEN [same EXCEPT !.ret = deltaHeader.err]
        ELSE IF validateDeltaHeader(deltaHeader.v, src, deltaRef) # None
          THEN [same EXCEPT !.ret = validateDeltaHeader(deltaHeader.v, src, deltaRef)]
        ELSE IF repoFails
          THEN [same EXCEPT !.ret = "SaveSource failed", !.header = deltaHeader.v]
        ELSE [same EXCEPT !.header = deltaHeader.v,
                          !.sources = SaveSource(deltaSource(src, deltaRef)),
                          !.saved = <<[by |-> "delta",
                                       version |-> deltaSource(src, deltaRef).version,
                                       file |-> deltaHeader.v.version]>>,
                          !.wrote = TRUE]
      ELSE
        LET delta == UnmarshalDelta(bytes) IN
        IF delta.err # None THEN [same EXCEPT !.ret = delta.err]
        ELSE IF delta.v.k = "add_modify" THEN
          IF repoFails THEN [same EXCEPT !.ret = "AddModifyObject failed"]
          ELSE [same EXCEPT !.objects = AddObjects(src.id, {delta.v.obj}),
                            !.wrote = TRUE]
        ELSE IF delta.v.k = "add_modify_bad_rpsl"
          THEN [same EXCEPT !.ret = "rpsl.ParseString failed"]
        ELSE IF delta.v.k \in {"add_modify_no_object", "delete_no_key"}
          THEN [same EXCEPT !.ret = "panic"]
        ELSE IF delta.v.k = "delete" THEN
          IF repoFails THEN same
          ELSE [same EXCEPT !.objects = RemoveObject(src.id, delta.v.obj),
                            !.wrote = TRUE]
        ELSE [same EXCEPT !.ret = "no delta action available"]
    ELSE [same EXCEPT !.ret = err]

\* One record of the delta file: the reader calls applyDeltaFunc; an error
\* ends syncDeltas, and the end of the file takes the loop to the next
\* reference or ends syncDeltas with nil
DeltaRecord(bytes, err, repoFails) ==
    /\ pc = "delta"
    /\ err # "EOF" => nread < MaxEntries
    /\ nread' = nread + 1
    /\ LET cb == applyDeltaFunc(bytes, err, repoFails) IN
       /\ header' = cb.header
       /\ sources' = cb.sources
       /\ objects' = cb.objects
       /\ saved' = saved \o cb.saved
       /\ wrote' = (wrote \/ cb.wrote)
       /\ IF cb.ret # None THEN Fails(cb.ret)
          ELSE IF err # "EOF" THEN UNCHANGED <<pc, result>>
          ELSE IF deltaRefs = << >> THEN Fails("ok")
          ELSE pc' = "deltas" /\ result' = result
    /\ UNCHANGED <<opKind, src, nt, deltaRefs, deltaRef, snapVars>>
    /\ UNCHANGED <<analyzed, emptyDeltas, fetched, pre, filePre, caughtUp, connected, eofBytes, listed, digestOk>>

\* ------------------------------------------------------------------ Spec
Init == fu = [n |-> CHOOSE n \in FuNotifications : TRUE, sv |-> 0,
              out |-> Uncalled, sortDone |-> FALSE, sorted |-> << >>]
        /\ InitProc

UpdateNames == HeaderNames

\* The calls the reader makes of applyDeltaFunc. The callback reads the bytes
\* only when err is nil or io.EOF, and the repository only then: one call
\* stands for all the calls of another err.
DeltaCalls ==
    {c \in [bytes : DeltaFileBytes, err : ReaderErrs, repoFails : BOOLEAN] :
        c.err \notin {"nil", "EOF"} => c.bytes = Malformed /\ ~c.repoFails}
ReplaceLabelInputs == StoredLabels

Next ==
    \/ \E u \in URLs, l \in LabelInputs :
          /\ Connect(u, l)
          /\ Len(sources') <= MaxSources
          /\ src'.source \in SourceNames \cup {NoSource.source}
          /\ UNCHANGED <<fu, poolVars>>
    \/ \E n \in UpdateNames, l \in StoredLabels : Update(n, l) /\ UNCHANGED <<fu, poolVars>>
    \/ \E n \in SourceNames, a \in StoredLabels, b \in ReplaceLabelInputs :
          ReplaceLabel(n, a, b) /\ UNCHANGED <<fu, poolVars>>
    \/ \E b \in SnapshotFileBytes, e \in ReaderErrs \ {"EOF"} :
          SnapshotRecord(b, e) /\ UNCHANGED <<fu, poolVars>>
    \/ \E i \in 1..ParserPoolSize, f \in BOOLEAN : SnapshotWorker(i, f) /\ UNCHANGED <<fu, poolVars>>
    \/ \E b \in SnapshotObjectBytes, f \in BOOLEAN : SnapshotEOF(b, f) /\ UNCHANGED <<fu, poolVars>>
    \/ SnapshotFlush /\ UNCHANGED <<fu, poolVars>>
    \/ DeltaFetch /\ UNCHANGED <<fu, poolVars>>
    \/ \E c \in DeltaCalls : DeltaRecord(c.bytes, c.err, c.repoFails) /\ UNCHANGED <<fu, poolVars>>
    \/ ListSources /\ UNCHANGED <<fu, poolVars>>
    \/ Return /\ UNCHANGED <<fu, poolVars>>

Spec == Init /\ [][Next]_vars

\* ------------------------------------------------------ claims of SpecFind
FuSucceeded == fu.out.err = None

FuInRange ==
    \A i \in DOMAIN fu.out.refs :
        fu.sv < fu.out.refs[i].version /\ fu.out.refs[i].version <= fu.n.version

C2_ExactlyTheNeededDeltas ==
    FuSucceeded =>
        /\ SeqSet(RefVersions(fu.out.refs))
              = {v \in SeqSet(RefVersions(fu.n.deltaRefs)) : v > fu.sv}
        /\ fu.sv <= fu.n.version => Len(fu.out.refs) = fu.n.version - fu.sv
        /\ fu.sv >= fu.n.version => fu.out.refs = << >>

\* C2 witness: a success that returns two references and leaves out a delta
\* at or below the source's version.
C2_Witness ==
    /\ FuSucceeded
    /\ Len(fu.out.refs) = 2
    /\ Len(fu.n.deltaRefs) = 3
    /\ fu.n.version - fu.sv = 2

\* findUpdates has returned.
FuCalled == fu.out # Uncalled

FuVersions == SeqSet(RefVersions(fu.n.deltaRefs))
FuLo == CHOOSE v \in FuVersions : \A w \in FuVersions : v <= w
FuHi == CHOOSE v \in FuVersions : \A w \in FuVersions : v >= w
FuHasDeltas == ~fu.n.deltaRefsNil /\ fu.n.deltaRefs # << >>
FuDuplicate == Cardinality(FuVersions) # Len(fu.n.deltaRefs)
FuContiguous == \A v \in FuLo..FuHi : v \in FuVersions

\* The notification's delta list is non-empty, duplicate-free and contiguous
\* and its highest version is notification.version.
FuWellFormed ==
    /\ FuHasDeltas
    /\ ~FuDuplicate
    /\ FuContiguous
    /\ FuHi = fu.n.version

\* C11 as stated: for a well-formed delta list, findUpdates returns
\* NextConsecutiveDeltaUnavailable if and only if source.version + 1 is lower
\* than the lowest delta version, and succeeds otherwise.
C11_UnavailableIffGap ==
    (FuCalled /\ FuWellFormed) =>
        /\ fu.out.err = "NextConsecutiveDeltaUnavaliable" <=> fu.sv + 1 < FuLo
        /\ fu.out.err = None <=> ~(fu.sv + 1 < FuLo)

\* C12: for every notification whose delta list is absent or empty and every
\* source, findUpdates returns the NoDeltasInNotification error and no delta
\* reference.
C12_NoDeltasInNotification ==
    (FuCalled /\ ~FuHasDeltas) =>
        /\ fu.out.err = "NoDeltasInNotification"
        /\ fu.out.refs = << >>

\* C12 witness: findUpdates has returned for a notification without a delta
\* list and a source above version 0.
C12_Witness ==
    /\ FuCalled
    /\ fu.n.deltaRefsNil
    /\ fu.sv > 0

\* C13: for a non-empty delta list and whatever the source's version,
\* findUpdates returns DuplicateDeltaVersion if a version occurs more than
\* once; otherwise NotificationVersionDoesNotMatchDelta if the highest delta
\* version differs from notification.version; otherwise DeltaSequenceBroken
\* if the versions are not consecutive integers; otherwise none of the three.
C13_FirstFailingCheck ==
    (FuCalled /\ FuHasDeltas) =>
        IF FuDuplicate THEN fu.out.err = "DuplicateDeltaVersion"
        ELSE IF FuHi # fu.n.version
          THEN fu.out.err = "NotificationVersionDoesNotMatchDelta"
        ELSE IF ~FuContiguous THEN fu.out.err = "NotificationDeltaSequenceBroken"
        ELSE fu.out.err \notin {"DuplicateDeltaVersion",
                                "NotificationVersionDoesNotMatchDelta",
                                "NotificationDeltaSequenceBroken"}

\* C13 witness: findUpdates has returned DeltaSequenceBroken for a list with a
\* gap, listed out of order, and a source at the list's highest version.
C13_Witness ==
    /\ FuCalled
    /\ FuHasDeltas
    /\ ~FuDuplicate
    /\ ~FuContiguous
    /\ ~IsStrictlyAscending(fu.n.deltaRefs)
    /\ fu.sv = FuHi
    /\ fu.out.err = "NotificationDeltaSequenceBroken"

\* ---------------------------------------------------------- claims of Spec
\* The operation has returned.
Returned(kind) == pc = "done" /\ opKind = kind

\* The versions of the delta files whose header was accepted and saved.
DeltaSaves == SelectSeq(saved, LAMBDA e : e.by = "delta")

\* C3: across any sequence of Connect, Update and ReplaceLabel calls, failing
\* or not, no step removes a source record or replaces it by one of a lower
\* version: every write of a source carries a version greater than or equal
\* to the version stored for it before.
C3_VersionNeverDecreases ==
    [][\A i \in DOMAIN sources :
          /\ i \in DOMAIN sources'
          /\ sources'[i].version >= sources[i].version]_vars

\* C3 witness: an operation has written the version of a source twice or more
\* and left it higher than it was when syncDeltas started.
C3_Witness ==
    /\ pc = "done"
    /\ Len(DeltaSaves) >= 2
    /\ sources[src.id].version > src.version

\* The delta file being read failed after its header was accepted, on an
\* entry: RPSL that does not parse, an unknown action, a malformed record or
\* a repository error.
DeltaEntryFailed ==
    /\ pc = "done"
    /\ deltaRef # NoRef
    /\ header # NilHeader
    /\ nread >= 2
    /\ result \in {"rpsl.ParseString failed", "no delta action available",
                   "json error", "AddModifyObject failed"}

\* C4 as stated: when applying a delta file fails after its header was
\* accepted, the stored source version is the version it had before the file
\* was started and the source's objects are the objects it had then.
C4_DeltaFileRolledBack ==
    DeltaEntryFailed =>
        /\ sources[src.id].version = filePre.version
        /\ objects[src.id] = filePre.objects

\* Connect failed in the snapshot file, after saveNewSource and before
\* syncDeltas.
SnapshotFailed ==
    /\ Returned("connect")
    /\ saved # << >>
    /\ ~analyzed
    /\ result \in {"json error", "ErrNRTMFileVersionMismatch", "read error",
                   "SaveSnapshotObjects failed", "SaveSource failed"}

\* C5 as stated: when Connect fails after the snapshot file was fetched, the
\* repository holds neither the new source record nor any object of the
\* snapshot: it is the repository Connect started from.
C5_SnapshotAtomic == SnapshotFailed => Repo = pre

\* syncDeltas returned nil having applied one delta file or more.
SyncDeltasSucceeded ==
    /\ pc = "done"
    /\ opKind \in {"connect", "update"}
    /\ result = "ok"
    /\ fetched # << >>

\* C6: when syncDeltas returns nil after applying a non-empty list of delta
\* files, the stored source version is the highest applied delta version, and
\* the source was saved once for every delta version, in ascending order, the
\* first one greater than the version the source had when syncDeltas started
\* and each next one greater than the one before.
C6_SavedEveryVersionInOrder ==
    SyncDeltasSucceeded =>
        /\ sources[src.id].version = fetched[Len(fetched)]
        /\ \A i \in DOMAIN fetched : fetched[i] <= fetched[Len(fetched)]
        /\ Len(DeltaSaves) = Len(fetched)
        /\ \A i \in DOMAIN DeltaSaves :
              /\ DeltaSaves[i].version = fetched[i]
              /\ DeltaSaves[i].version
                    = (IF i = 1 THEN src.version ELSE DeltaSaves[i - 1].version) + 1

\* C6 witness: syncDeltas succeeded on two delta files.
C6_Witness ==
    /\ SyncDeltasSucceeded
    /\ Len(fetched) = 2
    /\ Len(DeltaSaves) = 2

\* The writes of the source made at the end of a snapshot file.
SnapshotSaves == SelectSeq(saved, LAMBDA e : e.by = "snapshot")

\* C7: when the snapshot callback reaches EOF and returns nil, the source
\* version written by SaveSource is the version of the snapshot file's header,
\* and that version is notification.snapshotRef.version; it is the version
\* stored until a delta file is applied.
C7_SnapshotVersionIsSnapshotRef ==
    \A i \in DOMAIN SnapshotSaves :
        /\ SnapshotSaves[i].version = SnapshotSaves[i].file
        /\ SnapshotSaves[i].file = nt.snapshotRef
        /\ DeltaSaves = << >> => sources[src.id].version = SnapshotSaves[i].version

\* C7 witness: Connect returned nil after a snapshot of a version above 0 that
\* held the header and two object records.
C7_Witness ==
    /\ Returned("connect")
    /\ result = "ok"
    /\ Len(SnapshotSaves) = 1
    /\ nt.snapshotRef > 0
    /\ successfulObjects + failedObjects = 3

\* C8: no step changes the sessionId stored for a source: whatever the
\* notifications and files of the publisher, Update and ReplaceLabel (and the
\* rest of Connect) write no source record whose sessionId differs from the
\* one the source was created with.
C8_SessionIdNeverChanges ==
    [][\A i \in DOMAIN sources :
          /\ i \in DOMAIN sources'
          /\ sources'[i].sessionId = sources[i].sessionId]_vars

\* C8 witness: an Update has written the source record.
C8_Witness ==
    /\ Returned("update")
    /\ DeltaSaves # << >>
    /\ sources[src.id] # pre.sources[src.id]

\* Update downloaded a notification of another session, or of a version
\* below the source's.
UpdateMustReject ==
    /\ opKind = "update"
    /\ nt # NoNotification
    /\ nt.sessionId # src.sessionId \/ nt.version < src.version

\* C9: whenever the notification Update downloaded has a sessionId other than
\* the stored source's, or a version lower than the stored source's, Update
\* returns an error without calling findUpdates, without fetching a delta
\* file and without writing to the repository.
C9_UpdateRejectsBeforeAnalysis ==
    UpdateMustReject =>
        /\ pc = "done"
        /\ result = (IF nt.sessionId # src.sessionId
                       THEN "server has a new mirror session"
                       ELSE "server has old version")
        /\ ~analyzed
        /\ fetched = << >>
        /\ ~wrote
        /\ Repo = pre

\* C9 witness: Update has rejected a notification of the source's session
\* whose version is below the source's.
C9_Witness ==
    /\ UpdateMustReject
    /\ pc = "done"
    /\ nt.sessionId = src.sessionId
    /\ nt.version < src.version

\* Update downloaded a notification of the source's session and version.
UpdateSameNotification ==
    /\ Returned("update")
    /\ nt # NoNotification
    /\ nt.sessionId = src.sessionId
    /\ nt.version = src.version

\* C10: an Update that applied deltas leaves the source at the notification's
\* version and session; and an Update against a notification of the source's
\* session and version (so the Update after it against the same notification)
\* returns nil, with no repository write and no delta fetch, and leaves the
\* source records and the objects as they were.
C10_UpdateIdempotent ==
    /\ (Returned("update") /\ SyncDeltasSucceeded) =>
          /\ sources[src.id].version = nt.version
          /\ sources[src.id].sessionId = nt.sessionId
    /\ UpdateSameNotification =>
          /\ result = "ok"
          /\ ~wrote
          /\ fetched = << >>
          /\ Repo = pre

\* C10 witness: the Update that follows an Update that applied deltas, against
\* a notification of the version the first one brought the source to.
C10_Witness ==
    /\ caughtUp
    /\ UpdateSameNotification
    /\ result = "ok"

\* fetchFileAndCheckHash returned an error for the snapshot file of Connect.
SnapshotFetchFailed ==
    /\ Returned("connect")
    /\ saved = << >>
    /\ result \in {"fetchFileAndCheckHash: hash mismatch",
                   "fetchFileAndCheckHash: fetch failed"}

\* fetchFileAndCheckHash returned an error for the delta file of deltaRef.
DeltaFetchFailed ==
    /\ pc = "done"
    /\ fetched # << >>
    /\ result \in {"fetchFileAndCheckHash: hash mismatch",
                   "fetchFileAndCheckHash: fetch failed"}

ConnectSucceeded ==
    /\ Returned("connect")
    /\ result = "ok"
    /\ pre.sources = << >>

\* The stored source is the one Connect made of the notification, the URL and
\* the label.
ConnectedSourceStored ==
    /\ Len(sources) = 1
    /\ sources[1].source = src.source
    /\ sources[1].sessionId = nt.sessionId
    /\ sources[1].notificationURL = src.notificationURL

\* ListSources returns the stored sources, each once.
ListSourcesReturnsStored ==
    (Returned("listSources") /\ result = "ok") =>
        /\ Len(listed) = Len(sources)
        /\ \A i \in DOMAIN listed : listed[i].source = sources[i]

\* C15 as stated: after a successful Connect on a repository with no sources,
\* ListSources returns exactly one source, with the notification's source
\* name and sessionId and the URL given, whose version is the notification's
\* version.
C15_ConnectedAtNotificationVersion ==
    /\ ListSourcesReturnsStored
    /\ ConnectSucceeded =>
          /\ ConnectedSourceStored
          /\ sources[1].version = nt.version

\* C15 amended: after a successful Connect on a repository with no sources,
\* ListSources returns exactly one source, with the notification's source
\* name and sessionId and the URL given; its version is the notification's
\* version when the snapshot's version is not above it, and the snapshot's
\* version when it is.
C15_ConnectedAtHighestVersion ==
    /\ ListSourcesReturnsStored
    /\ ConnectSucceeded =>
          /\ ConnectedSourceStored
          /\ sources[1].version
                = (IF nt.snapshotRef <= nt.version THEN nt.version ELSE nt.snapshotRef)

\* C15 witness: ListSources has returned one source right after a successful
\* Connect, at a version above 0.
C15_Witness ==
    /\ Returned("listSources")
    /\ result = "ok"
    /\ connected
    /\ Len(listed) = 1
    /\ listed[1].source.version > 0

\* Connect read a valid snapshot to its end and was given a notification
\* without deltas.
ConnectedWithoutDeltas ==
    /\ Returned("connect")
    /\ SnapshotSaves # << >>
    /\ emptyDeltas

\* C16 as stated: Connect against a notification whose delta list is empty,
\* with a valid snapshot, returns no error and leaves the source at the
\* snapshot's version.
C16_ConnectWithoutDeltasSucceeds ==
    ConnectedWithoutDeltas =>
        /\ result = "ok"
        /\ sources[src.id].version = nt.snapshotRef

\* The snapshot file held the header record and nothing else, and the
\* callback has been given io.EOF. Read at the return of Connect, before any
\* delta file was fetched. The reader either passed the header as an ordinary
\* record and then io.EOF with no bytes (not JSON, so bytesToRPSL gives nil),
\* or passed the header bytes with io.EOF as the only invocation.
HeaderThenEmptyEOF ==
    /\ nread = 1
    /\ snapshotHeader # NilHeader
    /\ snapshotHeader # ZeroHeader
    /\ eofBytes = "malformed"

HeaderWithEOF ==
    /\ nread = 0
    /\ eofBytes = "header"

HeaderOnlySnapshotRead ==
    /\ pc = "done"
    /\ opKind = "connect"
    /\ fetched = << >>
    /\ result \notin {"SaveSnapshotObjects failed", "SaveSource failed", "fatal"}
    /\ HeaderThenEmptyEOF \/ HeaderWithEOF

SnapshotIngestedAtRef ==
    /\ Len(SnapshotSaves) = 1
    /\ SnapshotSaves[1].version = SnapshotSaves[1].file
    /\ SnapshotSaves[1].file = nt.snapshotRef
    /\ sources[src.id].version = nt.snapshotRef

\* C17: a snapshot file that holds only the header record is ingested without
\* error and the source is saved at the header's version, both when the header
\* arrives as an ordinary record followed by io.EOF with no bytes and when the
\* header bytes arrive together with io.EOF (the repository calls succeeding).
C17_HeaderOnlySnapshotSucceeds ==
    HeaderOnlySnapshotRead => SnapshotIngestedAtRef

\* the first way alone
HeaderThenEmptyEOFSucceeds ==
    (HeaderOnlySnapshotRead /\ HeaderThenEmptyEOF) => SnapshotIngestedAtRef

\* ------------------------------------------------------------ SpecLabels
\* Connect and ReplaceLabel on a repository of up to MaxLabelSources sources.
\* Every notification is of one session and one version, its snapshot file
\* holds the header only and it lists no delta above that version, so that
\* the sources differ in name, URL and label alone.
LabelNotification == [sessionId |-> "s1", version |-> 0, snapshotRef |-> 0]

NextLabels ==
    \/ \E u \in URLs, l \in LabelInputs :
          /\ Connect(u, l)
          /\ Len(sources') <= MaxLabelSources
          /\ nt' \in {NoNotification, LabelNotification}
          /\ UNCHANGED <<fu, poolVars>>
    \/ \E n \in HeaderNames, a \in LabelInputs, b \in LabelInputs :
          ReplaceLabel(n, a, b) /\ UNCHANGED <<fu, poolVars>>
    \/ \E b \in HeaderRecords : SnapshotRecord(b, "nil") /\ UNCHANGED <<fu, poolVars>>
    \/ \E f \in BOOLEAN : SnapshotEOF(Malformed, f) /\ UNCHANGED <<fu, poolVars>>
    \/ SnapshotFlush /\ pc' = "done" /\ UNCHANGED <<fu, poolVars>>
    \/ Return /\ UNCHANGED <<fu, poolVars>>

SpecLabels == Init /\ [][NextLabels]_vars

\* ------------------------------------------------ claims of SpecLabels
ReplaceLabelFailedUnchanged == result' # "ok" => sources' = sources

\* C18 as stated: ReplaceLabel(n, a, b) fails with SourceAlreadyExists if and
\* only if a source (n, b) exists, in every repository state, the ones where
\* no source (n, a) exists included; when it fails no source record changes.
C18_AlreadyExistsIffDuplicate ==
    [][\A n \in HeaderNames, a \in LabelInputs, b \in LabelInputs :
          ReplaceLabel(n, a, b) =>
             /\ result' = "ErrSourceAlreadyExists"
                   <=> getSourceByNameAndLabel(n, b) # {}
             /\ ReplaceLabelFailedUnchanged]_vars

\* C18 amended: when a source (n, a) exists, ReplaceLabel(n, a, b) fails with
\* SourceAlreadyExists if and only if a source (n, b) exists (a = b included);
\* when no source (n, a) exists it fails with "cannot find source with given
\* name and label" whether or not (n, b) exists; when it fails no source
\* record changes.
C18_AlreadyExistsIffDuplicateOfStored ==
    [][\A n \in HeaderNames, a \in LabelInputs, b \in LabelInputs :
          ReplaceLabel(n, a, b) =>
             /\ getSourceByNameAndLabel(n, a) # {} =>
                   (result' = "ErrSourceAlreadyExists"
                       <=> getSourceByNameAndLabel(n, b) # {})
             /\ getSourceByNameAndLabel(n, a) = {} =>
                   result' = "cannot find source with given name and label"
             /\ ReplaceLabelFailedUnchanged]_vars

\* ReplaceLabel has refused a label that another source of the name holds.
C18_Witness ==
    /\ pc = "done"
    /\ opKind = "replaceLabel"
    /\ result = "ErrSourceAlreadyExists"
    /\ Len(sources) = 2
    /\ sources[1].source = sources[2].source
    /\ sources[1].label # sources[2].label
    /\ sources = pre.sources

UniqueSourceAndLabel ==
    \A i, j \in DOMAIN sources :
        (i # j /\ sources[i].label = sources[j].label)
            => sources[i].source # sources[j].source

UniqueURLAndLabel ==
    \A i, j \in DOMAIN sources :
        (i # j /\ sources[i].label = sources[j].label)
            => sources[i].notificationURL # sources[j].notificationURL

C20_StoredLabelsValid ==
    \A i \in DOMAIN sources :
        sources[i].label = EmptyLabel \/ labelReMatch(sources[i].label)

\* the same of the sources Connect stores, before any ReplaceLabel
ConnectStoresValidLabel ==
    (opKind = "connect" /\ src # NoSource) =>
        (src.label = EmptyLabel \/ labelReMatch(src.label))

\* ------------------------------------------------ more claims of Spec
\* syncDeltas asks the file manager for a delta file.
FetchesDelta == pc # "done" /\ fetched' # fetched

\* The delta file fetched last was read to its end and applied.
LastDeltaApplied ==
    /\ header # NilHeader
    /\ header.version = fetched[Len(fetched)]
    /\ sources[src.id].version = fetched[Len(fetched)]
    /\ nread >= 1

\* C21: delta files are applied one at a time in ascending version order,
\* whatever the order of the references in the notification: a delta file is
\* fetched only between files, after the file before it was read to its end
\* and applied, and its version is above the version of every file fetched
\* before it. Within a file each record is applied inside its callback, so
\* the repository calls follow the order of the stream.
C21_OneDeltaAtATimeAscending ==
    [][FetchesDelta =>
          /\ pc = "deltas"
          /\ fetched' = Append(fetched, deltaRef'.version)
          /\ \A i \in DOMAIN fetched : fetched[i] < deltaRef'.version
          /\ fetched # << >> => LastDeltaApplied]_vars

\* C21 witness: the second delta file of an operation is being read, the
\* first one having changed the objects of the source.
C21_Witness ==
    /\ pc = "delta"
    /\ Len(fetched) = 2
    /\ fetched[1] < fetched[2]
    /\ header # NilHeader
    /\ objects[src.id] # pre.objects[src.id]

\* The header of a delta file does not fit the source and the reference.
DeltaHeaderInvalid(h) ==
    \/ h.nrtmVersion # 4
    \/ h.sessionId # src.sessionId
    \/ h.source # src.source
    \/ h.version # deltaRef.version
    \/ h.version < src.version

ProtocolErrors ==
    {"ErrNRTMVersionMismatch", "ErrNRTMSourceMismatch", "ErrNRTMSourceNameMismatch",
     "ErrNRTMFileVersionMismatch", "ErrNRTMFileVersionInconsistency"}

\* The calls of the callback that hand it, as the first record of the file,
\* a header that fails.
InvalidDeltaHeaderCalls ==
    {c \in DeltaCalls :
        /\ c.err \in {"nil", "EOF"}
        /\ UnmarshalHeader(c.bytes).err = None
        /\ DeltaHeaderInvalid(UnmarshalHeader(c.bytes).v)}

\* applyDeltaFunc returns a protocol error for every such call and writes
\* nothing.
InvalidDeltaHeaderRefused ==
    (pc = "delta" /\ header = NilHeader) =>
        \A c \in InvalidDeltaHeaderCalls :
            LET cb == applyDeltaFunc(c.bytes, c.err, c.repoFails) IN
            /\ cb.ret \in ProtocolErrors
            /\ cb.header = NilHeader
            /\ cb.sources = sources
            /\ cb.objects = objects
            /\ cb.saved = << >>
            /\ ~cb.wrote

\* The callback has returned an error for the first record of a delta file:
\* syncDeltas returns it, the repository is as it was when the file was
\* fetched and no other file is fetched.
DeltaHeaderErrorEndsSync ==
    (pc = "delta" /\ header = NilHeader /\ nread' # nread /\ header' = NilHeader) =>
        /\ pc' = "done"
        /\ result' # "ok"
        /\ sources' = sources
        /\ objects' = objects
        /\ sources'[src.id].version = filePre.version
        /\ objects'[src.id] = filePre.objects
        /\ saved' = saved
        /\ fetched' = fetched
        /\ deltaRefs' = deltaRefs

\* C22: when the header of a delta file fails validation (nrtmVersion not 4,
\* another sessionId or source name than the source's, another version than
\* the reference's, or a version below the source's), the operation returns
\* the protocol error with no repository write for that file: the stored
\* source and objects are what they were when the file was fetched, and no
\* further delta file is fetched.
C22_InvalidDeltaHeaderAborts ==
    []InvalidDeltaHeaderRefused /\ [][DeltaHeaderErrorEndsSync]_vars

\* C22 witness: the first of two delta files carried the header of another
\* session; the operation has returned with the second file not fetched.
C22_Witness ==
    /\ pc = "done"
    /\ result = "ErrNRTMSourceMismatch"
    /\ header = NilHeader
    /\ Len(fetched) = 1
    /\ deltaRefs # << >>
    /\ DeltaSaves = << >>
    /\ sources[src.id].version = filePre.version

\* The header of a snapshot file fits the source and the notification.
SnapshotHeaderValid(h) ==
    /\ h.nrtmVersion = 4
    /\ h.source = src.source
    /\ h.sessionId = src.sessionId
    /\ h.version = nt.snapshotRef

\* C23: snapshot ingestion rejects, before it persists any object, a snapshot
\* whose header has an nrtmVersion other than 4, a source name or sessionId
\* other than the source's, or a version other than
\* notification.snapshotRef.version: the callback keeps a header, and goes on
\* to the objects, only if the header is valid.
C23_SnapshotHeaderValidated ==
    snapshotHeader # NilHeader => SnapshotHeaderValid(snapshotHeader)

\* the version alone
SnapshotHeaderVersionChecked ==
    snapshotHeader # NilHeader => snapshotHeader.version = nt.snapshotRef

\* A snapshot whose header is of another session or NRTM version was
\* ingested, objects included, and the source saved.
InvalidSnapshotIngested ==
    /\ Returned("connect")
    /\ SnapshotSaves # << >>
    /\ snapshotHeader # NilHeader
    /\ snapshotHeader.sessionId # src.sessionId \/ snapshotHeader.nrtmVersion # 4
    /\ objects[src.id] # {}

\* The object records that do not parse: bytes that are not JSON, and JSON
\* whose RPSL text rpsl.ParseString returns an error for.
MalformedRPSL == [k |-> "object_bad_rpsl"]
UnparsableObjectBytes == {Malformed, MalformedRPSL}

\* incrementCounters(parser.bytesToRPSL(bytes)) counts the record as failed,
\* leaves the batch buffer alone and ends without panic or exit.
CountedAsFailed(bytes) ==
    LET ic == incrementCounters(bytesToRPSL(bytes), FALSE) IN
    /\ ic.failedObjects = failedObjects + 1
    /\ ic.successfulObjects = successfulObjects
    /\ ic.objectList = objectList
    /\ ic.objects = objects
    /\ ic.ret = None

\* The snapshot callback has kept the header and takes object records.
TakesObjectRecords == pc = "snapshot" /\ snapshotHeader # NilHeader

\* C27: a snapshot object record that fails to parse, as JSON or as RPSL
\* text, increments the failure counter, is not counted as successful, is not
\* added to the batch handed to the repository, and ingestion goes on.
C27_UnparsableObjectCountedAsFailed ==
    TakesObjectRecords => \A b \in UnparsableObjectBytes : CountedAsFailed(b)

\* the records that are not JSON alone
MalformedJSONCountedAsFailed == TakesObjectRecords => CountedAsFailed(Malformed)

\* A record whose RPSL text did not parse is among the stored objects of a
\* snapshot that was ingested, and no record was counted as failed.
UnparsedObjectStored ==
    /\ Returned("connect")
    /\ SnapshotSaves # << >>
    /\ ZeroObj \in objects[src.id]
    /\ failedObjects = 0
    /\ eofBytes = "object_bad_rpsl"

\* The calls of the delta callback with an entry for which the repository
\* returns an error.
RepoFailingEntryCalls(kinds) ==
    {c \in DeltaCalls :
        /\ c.err \in {"nil", "EOF"}
        /\ c.repoFails
        /\ c.bytes.k \in kinds}

\* The callback returns an error for every such call and applies nothing.
RepoErrorReturned(kinds) ==
    (pc = "delta" /\ header # NilHeader) =>
        \A c \in RepoFailingEntryCalls(kinds) :
            LET cb == applyDeltaFunc(c.bytes, c.err, c.repoFails) IN
            /\ cb.ret # None
            /\ cb.objects = objects

\* C28: while a delta file is applied, an error the repository returns for an
\* entry, from addModifyObject or from deleteObject, is returned by the
\* callback, which ends the file and the operation: no repository error is
\* ignored.
C28_RepositoryErrorStopsDelta == RepoErrorReturned({"add_modify", "delete"})

\* the errors of addModifyObject alone
AddModifyErrorStopsDelta == RepoErrorReturned({"add_modify"})

\* The callback is about to take an entry of a delta file whose header it
\* has accepted.
TakesDeltaEntries == pc = "delta" /\ header # NilHeader /\ nread < MaxEntries

\* ------------------------------------- SpecSnap: the snapshot pipeline
\* The snapshot callback and its goroutines, one step of one goroutine at a
\* time. A call of incrementCounters goes through "add" (objectList.Add),
\* "load" and "store" (the read and the write of the counter's ++), "batch"
\* (GetBatch and SaveSnapshotObjects), "release" (parserPool.Release) and,
\* in a goroutine, "done" (wg.Done).
PoolUntouched ==
    <<opKind, src, nt, deltaRefs, deltaRef, header, snapshotHeader, workers,
      analyzed, emptyDeltas, fetched, saved, pre, filePre, caughtUp, digestOk,
      connected, listed>>

\* The process runs: it neither panicked nor was ended by log.Fatalln.
ProcessRuns == pc = "done" => result \notin {"panic", "fatal"}

\* The calls of incrementCounters that hold a parser handle.
Holding == {i \in PoolCalls : wk[i].st \in {"add", "load", "store", "batch", "release"}}

\* RPSLObjectList.GetBatch that leaves the objects in the list
GetBatchNoRemove(list, size) ==
    IF Len(list) >= size
    THEN [res |-> SubSeq(list, 1, size), objects |-> list]
    ELSE [res |-> << >>, objects |-> list]

\* RPSLObjectList.GetBatch: what it returns and the list it leaves
GetBatch(list, size) ==
    IF Len(list) >= size
    THEN [res |-> SubSeq(list, 1, size), objects |-> SubSeq(list, size + 1, Len(list))]
    ELSE [res |-> << >>, objects |-> list]

\* RPSLObjectList.GetAll
GetAll(list) == [res |-> list, objects |-> << >>]

\* the objects of rpslObjects counted as handed to SaveSnapshotObjects
Deliver(rpslObjects) ==
    [o \in PoolCalls |->
        delivered[o] + Cardinality({j \in DOMAIN rpslObjects : rpslObjects[j] = o})]

\* parserPool.Acquire that takes no parser out of the pool
AcquireTakesNone(n) == n
\* parserPool.Acquire: the receive from Parsers
Acquire(n) == n - 1
\* parserPool.Release that does not hand the parser back
ReleaseLosesParser(n) == n
\* parserPool.Release: the send to Parsers
Release(n) == n + 1
\* wg.Wait that does not wait
WaitReturnsAtOnce == TRUE
\* wg.Wait returns
WaitReturns == wg = 0

\* A record after the header: Acquire, wg.Add(1) and the go statement.
PoolDispatch(bytes) ==
    /\ pc = "snapshot"
    /\ successfulObjects # 0
    /\ nread \in 1..MaxPoolRecords
    /\ parsers > 0
    /\ parsers' = Acquire(parsers)
    /\ wg' = wg + 1
    /\ wk' = [wk EXCEPT ![nread] =
                 [st |-> IF bytesToRPSL(bytes) # NilObj THEN "add" ELSE "load",
                  obj |-> bytesToRPSL(bytes), reg |-> 0]]
    /\ nread' = nread + 1
    /\ UNCHANGED <<repoVars, pc, result, successfulObjects, failedObjects, objectList>>
    /\ UNCHANGED <<PoolUntouched, wrote, eofBytes, poolClosed, delivered>>

\* The callback with io.EOF: Acquire and bytesToRPSL; the reader then runs
\* incrementCounters itself, as call 0.
PoolEOF(bytes) ==
    /\ pc = "snapshot"
    /\ parsers > 0
    /\ parsers' = Acquire(parsers)
    /\ wk' = [wk EXCEPT ![0] =
                 [st |-> IF bytesToRPSL(bytes) # NilObj THEN "add" ELSE "load",
                  obj |-> bytesToRPSL(bytes), reg |-> 0]]
    /\ pc' = "eof"
    /\ eofBytes' = bytes.k
    /\ UNCHANGED <<repoVars, result, nread, successfulObjects, failedObjects, objectList>>
    /\ UNCHANGED <<PoolUntouched, wrote, poolClosed, wg, delivered>>

\* objectList.Add(*obj)
PoolAdd(i) ==
    /\ ProcessRuns
    /\ wk[i].st = "add"
    /\ objectList' = Append(objectList, wk[i].obj)
    /\ wk' = [wk EXCEPT ![i].st = "load"]
    /\ UNCHANGED <<repoVars, pc, result, nread, successfulObjects, failedObjects>>
    /\ UNCHANGED <<PoolUntouched, wrote, eofBytes, parsers, poolClosed, wg, delivered>>

\* successfulObjects++ or failedObjects++: the read of the counter
PoolLoad(i) ==
    /\ ProcessRuns
    /\ wk[i].st = "load"
    /\ wk' = [wk EXCEPT ![i].st = "store",
                        ![i].reg = IF wk[i].obj # NilObj THEN successfulObjects
                                   ELSE failedObjects]
    /\ UNCHANGED <<repoVars, pc, result, nread, successfulObjects, failedObjects, objectList>>
    /\ UNCHANGED <<PoolUntouched, wrote, eofBytes, parsers, poolClosed, wg, delivered>>

\* successfulObjects++ or failedObjects++: the write of the counter
PoolStore(i) ==
    /\ ProcessRuns
    /\ wk[i].st = "store"
    /\ IF wk[i].obj # NilObj
       THEN successfulObjects' = wk[i].reg + 1 /\ failedObjects' = failedObjects
       ELSE failedObjects' = wk[i].reg + 1 /\ successfulObjects' = successfulObjects
    /\ wk' = [wk EXCEPT ![i].st = "batch", ![i].reg = 0]
    /\ UNCHANGED <<repoVars, pc, result, nread, objectList>>
    /\ UNCHANGED <<PoolUntouched, wrote, eofBytes, parsers, poolClosed, wg, delivered>>

\* objectList.GetBatch(rpslInsertBatchSize) and, when it returned objects,
\* repo.SaveSnapshotObjects
PoolBatch(i, repoFails) ==
    /\ ProcessRuns
    /\ wk[i].st = "batch"
    /\ LET b == GetBatch(objectList, BatchSize) IN
       /\ objectList' = b.objects
       /\ wk' = [wk EXCEPT ![i].st = "release"]
       /\ IF b.res = << >> THEN
             /\ repoFails = FALSE
             /\ UNCHANGED <<repoVars, pc, result, wrote, delivered>>
          ELSE IF snapshotHeader = NilHeader THEN
             /\ repoFails = FALSE
             /\ Fails("panic")
             /\ UNCHANGED <<repoVars, wrote, delivered>>
          ELSE IF repoFails THEN
             /\ Fails("fatal")
             /\ delivered' = Deliver(b.res)
             /\ UNCHANGED <<repoVars, wrote>>
          ELSE
             /\ objects' = AddObjects(src.id, SeqSet(b.res))
             /\ delivered' = Deliver(b.res)
             /\ wrote' = TRUE
             /\ UNCHANGED <<sources, pc, result>>
    /\ UNCHANGED <<nread, successfulObjects, failedObjects>>
    /\ UNCHANGED <<PoolUntouched, eofBytes, parsers, poolClosed, wg>>

\* parserPool.Release(parser): the deferred one of a goroutine, or the
\* reader's after its own incrementCounters. A send on a closed channel panics.
PoolRelease(i) ==
    /\ ProcessRuns
    /\ wk[i].st = "release"
    /\ poolClosed \/ parsers < ParserPoolSize
    /\ IF poolClosed THEN
          /\ Fails("panic")
          /\ UNCHANGED <<wk, parsers>>
       ELSE
          /\ parsers' = Release(parsers)
          /\ wk' = [wk EXCEPT ![i].st = IF i = 0 THEN "finished" ELSE "done"]
          /\ IF i = 0 THEN pc' = "eofwait" /\ result' = result
             ELSE UNCHANGED <<pc, result>>
    /\ UNCHANGED <<repoVars, nread, successfulObjects, failedObjects, objectList>>
    /\ UNCHANGED <<PoolUntouched, wrote, eofBytes, poolClosed, wg, delivered>>

\* wg.Done(), the deferred call a goroutine runs last
PoolDone(i) ==
    /\ ProcessRuns
    /\ i # 0
    /\ wk[i].st = "done"
    /\ wg' = wg - 1
    /\ wk' = [wk EXCEPT ![i].st = "finished"]
    /\ UNCHANGED <<repoVars, pc, result, nread, successfulObjects, failedObjects, objectList>>
    /\ UNCHANGED <<PoolUntouched, wrote, eofBytes, parsers, poolClosed, delivered>>

\* wg.Wait() and parserPool.Close()
PoolWaitClose ==
    /\ pc = "eofwait"
    /\ WaitReturns
    /\ poolClosed' = TRUE
    /\ pc' = "snapwait"
    /\ UNCHANGED <<repoVars, result, nread, successfulObjects, failedObjects, objectList>>
    /\ UNCHANGED <<PoolUntouched, wrote, eofBytes, wk, parsers, wg, delivered>>

\* objectList.GetAll(), the last SaveSnapshotObjects and SaveSource: the rest
\* of the callback with io.EOF, and Connect's return
PoolFlush ==
    /\ SnapshotFlush
    /\ pc' = "done"
    /\ delivered' = IF snapshotHeader = NilHeader THEN delivered
                    ELSE Deliver(GetAll(objectList).res)
    /\ UNCHANGED <<wk, parsers, poolClosed, wg>>

\* The snapshot files of SpecSnap: one header the notification's reference
\* accepts and the ones it refuses; the i-th record after it holds object i,
\* and the first may not be JSON instead; the bytes given with io.EOF are not
\* JSON or, in a file of at most MaxEOFRecordAfter records, hold no RPSL.
PoolHeaders ==
    {b \in HeaderRecords :
        b.h.nrtmVersion = 4 /\ b.h.sessionId = "s1" /\ b.h.source = "EXAMPLE"}
PoolRecordBytes(i) ==
    IF i = 1 THEN {[k |-> "object", obj |-> i], Malformed} ELSE {[k |-> "object", obj |-> i]}
PoolEOFBytes(n) ==
    IF n <= MaxEOFRecordAfter THEN {Malformed, [k |-> "object_bad_rpsl"]} ELSE {Malformed}

Reader ==
    \/ /\ Connect("u1", <<"a">>)
       /\ pc' = "snapshot"
       /\ nt' = LabelNotification
       /\ src'.source = "EXAMPLE"
       /\ UNCHANGED <<fu, poolVars>>
    \/ \E b \in PoolHeaders \cup {Malformed} :
          SnapshotRecord(b, "nil") /\ successfulObjects = 0 /\ UNCHANGED <<fu, poolVars>>
    \/ \E b \in PoolRecordBytes(nread) : PoolDispatch(b) /\ UNCHANGED fu
    \/ \E b \in PoolEOFBytes(nread) : PoolEOF(b) /\ UNCHANGED fu
    \/ PoolWaitClose /\ UNCHANGED fu
    \/ PoolFlush /\ UNCHANGED fu

\* The steps of call i of incrementCounters: goroutine i, or the reader (0)
Worker(i) ==
    \/ PoolAdd(i) /\ UNCHANGED fu
    \/ PoolLoad(i) /\ UNCHANGED fu
    \/ PoolStore(i) /\ UNCHANGED fu
    \/ \E f \in BOOLEAN : PoolBatch(i, f) /\ UNCHANGED fu
    \/ PoolRelease(i) /\ UNCHANGED fu
    \/ PoolDone(i) /\ UNCHANGED fu

NextSnap == Reader \/ \E i \in PoolCalls : Worker(i)

SpecSnap == Init /\ [][NextSnap]_vars

\* The Go scheduler runs a goroutine whenever one can take a step.
SpecSnapFair ==
    SpecSnap /\ WF_vars(NextSnap)

\* ---------------------------------------------------------------- C24
\* The calls of incrementCounters whose record parsed: bytesToRPSL gave an object.
Parsed == {i \in PoolCalls : wk[i].st # "none" /\ wk[i].obj # NilObj}
\* An object that parsed is in exactly one place: not yet added, in the batch
\* buffer once, or handed to SaveSnapshotObjects once.
ObjectInOnePlace(i) ==
    (IF wk[i].st = "add" THEN 1 ELSE 0)
    + Cardinality({j \in DOMAIN objectList : objectList[j] = wk[i].obj})
    + delivered[wk[i].obj] = 1

\* C24: under every interleaving of the reader and the parser goroutines an
\* object that parsed is, until it is saved, in the batch buffer exactly once,
\* and is handed to SaveSnapshotObjects by exactly one GetBatch or GetAll;
\* when the snapshot has been ingested every object that parsed was handed
\* over exactly once and is stored, and nothing else was handed over.
C24_ParsedObjectsSavedExactlyOnce ==
    /\ result # "panic" => \A i \in Parsed : ObjectInOnePlace(i)
    /\ SnapshotSaves # << >> /\ poolClosed =>
          /\ \A i \in Parsed : delivered[wk[i].obj] = 1 /\ wk[i].obj \in objects[src.id]
          /\ \A o \in PoolCalls : delivered[o] > 0 => \E i \in Parsed : wk[i].obj = o
          /\ objectList = << >>

\* Three objects and a record that is not JSON were read by four goroutines
\* at once; a goroutine saved a batch and the last flush saved the rest.
C24_Witness ==
    /\ SnapshotSaves # << >>
    /\ poolClosed
    /\ nread = MaxPoolRecords + 1
    /\ wk[1].obj = NilObj
    /\ \A o \in 2..MaxPoolRecords : delivered[o] = 1
    /\ result = "ok"

\* ---------------------------------------------------------------- C25
\* No call of incrementCounters is under way and no goroutine is left.
PipelineAtRest ==
    /\ \A i \in PoolCalls : wk[i].st \in {"none", "finished"}
    /\ wg = 0
    /\ parsers = ParserPoolSize

\* C25: SaveSource with the header's version is called only when every parser
\* goroutine has called wg.Done and every SaveSnapshotObjects of the file,
\* the last flush of the batch buffer included, has returned; once the
\* version is written nothing is in the buffer, no goroutine runs and no
\* object is handed to the repository or stored any more.
C25_VersionWrittenAfterAllObjects ==
    /\ [](SnapshotSaves # << >> => PipelineAtRest /\ objectList = << >>)
    /\ [][SnapshotSaves' # SnapshotSaves =>
            /\ PipelineAtRest
            /\ poolClosed
            /\ objects' = AddObjects(src.id, SeqSet(objectList))
            /\ sources'[src.id].version = snapshotHeader.version]_vars
    /\ [][SnapshotSaves # << >> => objects' = objects /\ delivered' = delivered]_vars

\* The version was written after four goroutines had finished, the last of
\* them having left its object to the final flush.
C25_Witness ==
    /\ SnapshotSaves # << >>
    /\ sources[src.id].version = snapshotHeader.version
    /\ \A i \in 1..MaxPoolRecords : wk[i].st = "finished" /\ wk[i].obj = i
    /\ objects[src.id] = 1..MaxPoolRecords
    /\ wg = 0

\* ---------------------------------------------------------------- C26
\* C26: the parser handles held by goroutines and by the reader at io.EOF are
\* never more than the pool's 4, and until the pool is closed the handles in
\* the pool and the handles held add up to 4.
C26_ParserHandlesConserved ==
    /\ Cardinality(Holding) <= ParserPoolSize
    /\ parsers \in 0..ParserPoolSize
    /\ ~poolClosed => parsers + Cardinality(Holding) = ParserPoolSize

\* All four handles are held by goroutines while the reader has a record left.
C26_Witness ==
    /\ parsers = 0
    /\ Cardinality(Holding) = ParserPoolSize
    /\ 0 \notin Holding
    /\ pc = "snapshot"

\* ---------------------------------------------------------------- C29
\* C29: when the callback reaches the final flush, successfulObjects and
\* failedObjects add up to the number of records it was given (the header,
\* the object records and the call with io.EOF), whatever the interleaving
\* of the goroutines that incremented them.
C29_CountersAddUp ==
    pc = "snapwait" => successfulObjects + failedObjects = nread + 1

\* Two calls read the same counter before either wrote it back.
TwoCallsLoadedOneCounter ==
    \E i, j \in PoolCalls :
        /\ i # j
        /\ wk[i].st = "store" /\ wk[j].st = "store"
        /\ (wk[i].obj = NilObj) = (wk[j].obj = NilObj)
        /\ wk[i].reg = wk[j].reg

\* ---------------------------------------------------------------- C30

\* C30: with a finite snapshot stream and repository calls that return, the
\* ingestion ends: the reader is never left waiting for a parser or for the
\* WaitGroup. A goroutine has released its parser when it calls wg.Done, the
\* pool is closed only with all four parsers back in it and no goroutine
\* left, and no Release is ever sent on the closed pool.
C30_SnapshotIngestionTerminates ==
    /\ <>(pc = "done")
    /\ [][\A i \in PoolCalls \ {0} :
            wg' # wg /\ wk'[i].st = "finished" /\ wk[i].st # "finished"
               => wk[i].st = "done" /\ i \notin Holding]_vars
    /\ [][~poolClosed /\ poolClosed' =>
            /\ parsers = ParserPoolSize
            /\ \A i \in PoolCalls : wk[i].st \in {"none", "finished"}]_vars
    /\ [](poolClosed => \A i \in PoolCalls : wk[i].st # "release")

\* A file of a header and four records, for which the reader took all four
\* parsers and a fifth time at io.EOF, was ingested and the pool closed.
C30_Witness ==
    /\ pc = "done"
    /\ result = "ok"
    /\ poolClosed
    /\ nread = MaxPoolRecords + 1
    /\ parsers = ParserPoolSize

====
